---- MODULE Spec2Model ----
(***************************************************************************)
(* Model of RecordEngine (src/js/engine/record-engine.js): the base class  *)
(* of the recorder backends.  The engine keeps one reference, recordedData,*)
(* and has four operations: dispose, addFileInfo, onStopRecording, saveAs. *)
(* JavaScript is single threaded, so each operation is one atomic action;  *)
(* the order of the effects inside one call is kept in the variable trace. *)
(*                                                                         *)
(* JavaScript strings on which the code computes (MIME types, file names   *)
(* built by addFileInfo) are sequences of one-character strings.  Strings  *)
(* that are only passed around (event names, download names) are TLA+      *)
(* strings.  A numeric field that was never assigned holds 0 (the clock    *)
(* starts at 1), a string field that was never assigned holds << >>.       *)
(***************************************************************************)
EXTENDS Integers, Sequences, FiniteSets, TLC

VARIABLES
    recordedData,   \* this.recordedData: "undefined", "null" or an object id
    heap,           \* the objects a backend can hand to the engine
    now,            \* the platform clock, what new Date().getTime() returns
    navigator,      \* which legacy save APIs and which click support exist
    revokedData,    \* the values dispose() passed to URL.revokeObjectURL
    completed,      \* recordedData as seen by a listener at each recordComplete
    objectURLs,     \* object URLs created by URL.createObjectURL, not revoked
    urlCount,       \* how many object URLs were created so far
    document,       \* the anchor elements appended to the document
    call,           \* the last call made on the engine: operation and arguments
    trace,          \* the effects of the last call, in order
    thrown,         \* how the last call ended: "none", "TypeError" or "Error"
    returned        \* the value the last call returned

vars == <<recordedData, heap, now, navigator, revokedData, completed,
          objectURLs, urlCount, document, call, trace, thrown, returned>>

\* The clock advances up to MaxTime in the engine specification.
MaxTime == 2
\* At most MaxAnchors calls of saveAs are explored (each may append an anchor).
MaxAnchors == 2

----------------------------------------------------------------------------
(* JavaScript string primitives, as the engine uses them.                  *)

RECURSIVE SplitAcc(_, _, _, _)
SplitAcc(s, sep, cur, acc) ==
    IF s = << >> THEN Append(acc, cur)
    ELSE IF Head(s) = sep THEN SplitAcc(Tail(s), sep, << >>, Append(acc, cur))
    ELSE SplitAcc(Tail(s), sep, Append(cur, Head(s)), acc)

\* String.prototype.split(sep) for a one-character separator: "".split("/")
\* is [""] and "audio/".split("/") is ["audio", ""].
Split(s, sep) == SplitAcc(s, sep, << >>, << >>)

\* String.prototype.indexOf(ch): zero based, -1 when ch does not occur.
IndexOf(s, ch) ==
    IF \E i \in 1..Len(s) : s[i] = ch
    THEN (CHOOSE i \in 1..Len(s) : s[i] = ch /\ \A j \in 1..(i - 1) : s[j] # ch) - 1
    ELSE -1

\* arr[i] of a JavaScript array (zero based): undefined past the end.
ArrayAt(arr, i) ==
    IF i + 1 <= Len(arr) THEN [defined |-> TRUE, str |-> arr[i + 1]]
    ELSE [defined |-> FALSE, str |-> << >>]

UndefinedText == <<"u", "n", "d", "e", "f", "i", "n", "e", "d">>

\* ToString of a string-or-undefined value, as '+' applies it.
JsToString(v) == IF v.defined THEN v.str ELSE UndefinedText

Digits == <<"0", "1", "2", "3", "4", "5", "6", "7", "8", "9">>

RECURSIVE NumToStr(_)
\* ToString of a non-negative integer: its decimal digits.
NumToStr(n) ==
    IF n < 10 THEN <<Digits[n + 1]>>
    ELSE NumToStr(n \div 10) \o <<Digits[(n % 10) + 1]>>

----------------------------------------------------------------------------
(* The objects.                                                            *)

ObjIds == {"blob1", "blob2"}
Refs == ObjIds \cup {"undefined", "null"}

\* How an assignment to a field of an object ends: "rw" stores the value,
\* "ro" is a getter-only property (strict mode code: a TypeError), "throws" is
\* a setter that raises an error that is not a TypeError.
Modes == {"rw", "ro", "throws"}
Kinds == {"Blob", "File", "Object"}

AudioOgg == <<"a", "u", "d", "i", "o", "/", "o", "g", "g">>
VideoWebm == <<"v", "i", "d", "e", "o", "/", "w", "e", "b", "m">>
VideoWebmCodecs ==
    <<"v", "i", "d", "e", "o", "/", "w", "e", "b", "m", ";", "c", "o", "d", "e",
      "c", "s", "=", "v", "p", "9", ",", "o", "p", "u", "s">>
ParamSlash ==
    <<"v", "i", "d", "e", "o", "/", "m", "p", "4", ";", "c", "o", "d", "e", "c",
      "s", "=", "a", "/", "b">>
NoSlash == <<"a", "u", "d", "i", "o">>
EmptyType == << >>
EmptySubtype == <<"a", "u", "d", "i", "o", "/">>
EmptySubtypeParams == <<"a", "u", "d", "i", "o", "/", ";", "q", "=", "1">>

MimeTypes ==
    {AudioOgg, VideoWebm, VideoWebmCodecs, ParamSlash, NoSlash, EmptyType,
     EmptySubtype, EmptySubtypeParams}

NewObject(kind, type, mLastModified, mLastModifiedDate, mName) ==
    [kind |-> kind, type |-> type,
     mode |-> [lastModified |-> mLastModified,
               lastModifiedDate |-> mLastModifiedDate,
               name |-> mName],
     lastModified |-> 0, lastModifiedDate |-> 0, name |-> << >>]

PlainObject == NewObject("Object", EmptyType, "rw", "rw", "rw")

----------------------------------------------------------------------------
(* addFileInfo                                                             *)

\* A variant of the instanceof test that accepts every object.
IsBlobOrFileAny(h, fileObj) == fileObj \in ObjIds

\* fileObj instanceof Blob || fileObj instanceof File
IsBlobOrFile(h, fileObj) ==
    fileObj \in ObjIds /\ h[fileObj].kind \in {"Blob", "File"}

\* obj.field = value in strict mode code.
Assign(obj, field, value) ==
    CASE obj.mode[field] = "rw" ->
            [obj |-> [obj EXCEPT ![field] = value], thrown |-> "none"]
      [] obj.mode[field] = "ro" -> [obj |-> obj, thrown |-> "TypeError"]
      [] OTHER -> [obj |-> obj, thrown |-> "Error"]

\* A variant that does not cut the extension at ';'.
FileExtensionKeepParams(type) == <<".">> \o JsToString(ArrayAt(Split(type, "/"), 1))

\* A variant that treats a missing subtype as the empty string.
FileExtensionEmptyForUndefined(type) ==
    LET part == ArrayAt(Split(type, "/"), 1)
        fileExtension == <<".">> \o part.str
    IN  IF IndexOf(fileExtension, ";") > -1
        THEN ArrayAt(Split(fileExtension, ";"), 0).str
        ELSE fileExtension

\* '.' + fileObj.type.split('/')[1], cut at the first ';'.
FileExtension(type) ==
    LET fileExtension == <<".">> \o JsToString(ArrayAt(Split(type, "/"), 1))
    IN  IF IndexOf(fileExtension, ";") > -1
        THEN ArrayAt(Split(fileExtension, ";"), 0).str
        ELSE fileExtension

\* A variant with one try block per assignment.
AddFileInfoIndependent(h, fileObj, t) ==
    IF ~IsBlobOrFile(h, fileObj) THEN [heap |-> h, thrown |-> "none"]
    ELSE
        LET a1 == Assign(h[fileObj], "lastModified", t)
            a2 == Assign(a1.obj, "lastModifiedDate", t)
            a3 == Assign(a2.obj, "name", NumToStr(t) \o FileExtension(h[fileObj].type))
        IN  IF a1.thrown = "Error"
            THEN [heap |-> [h EXCEPT ![fileObj] = a1.obj], thrown |-> "Error"]
            ELSE IF a2.thrown = "Error"
            THEN [heap |-> [h EXCEPT ![fileObj] = a2.obj], thrown |-> "Error"]
            ELSE [heap |-> [h EXCEPT ![fileObj] = a3.obj],
                  thrown |-> IF a3.thrown = "Error" THEN "Error" ELSE "none"]

\* addFileInfo(fileObj) on heap h when new Date() reads t.  The result is the
\* heap after the call and how the call ended.  The first try block holds two
\* assignments: when the first one throws, the second one is not run.
AddFileInfo(h, fileObj, t) ==
    IF ~IsBlobOrFile(h, fileObj) THEN [heap |-> h, thrown |-> "none"]
    ELSE
        LET a1 == Assign(h[fileObj], "lastModified", t)
            a2 == IF a1.thrown = "none"
                  THEN Assign(a1.obj, "lastModifiedDate", t) ELSE a1
            fileExtension == FileExtension(h[fileObj].type)
            a3 == Assign(a2.obj, "name", NumToStr(t) \o fileExtension)
        IN  IF a2.thrown = "Error"
            THEN [heap |-> [h EXCEPT ![fileObj] = a2.obj], thrown |-> "Error"]
            ELSE [heap |-> [h EXCEPT ![fileObj] = a3.obj],
                  thrown |-> IF a3.thrown = "Error" THEN "Error" ELSE "none"]

----------------------------------------------------------------------------
(* The engine.  The operations are operators on a record of the mutable    *)
(* state, so that one operation can call another (onStopRecording calls    *)
(* addFileInfo and dispose).                                               *)

\* One effect of a call: the operation, the object it is about, the object
\* URL it is about (0: none), a string argument and the value it returned.
Effect(op, ref, url, text, res) ==
    [op |-> op, ref |-> ref, url |-> url, text |-> text, res |-> res]

Log(st, e) == [st EXCEPT !.trace = Append(@, e)]

\* The state a call starts from: the effects and the outcome are per call.
Cur ==
    [recordedData |-> recordedData, heap |-> heap, revokedData |-> revokedData,
     completed |-> completed, objectURLs |-> objectURLs, urlCount |-> urlCount,
     document |-> document, trace |-> << >>, thrown |-> "none",
     returned |-> "undefined"]

\* URL.revokeObjectURL(this.recordedData): the argument is the recorded value.
RevokeRecordedData(st) ==
    Log([st EXCEPT !.revokedData = @ \cup {st.recordedData}],
        Effect("revokeObjectURL", st.recordedData, 0, "", "undefined"))

\* A variant of dispose that also drops the reference.
DisposeAndForget(st) ==
    LET s1 == Log(st, Effect("dispose", "undefined", 0, "", "undefined"))
    IN  IF s1.recordedData # "undefined"
        THEN [RevokeRecordedData(s1) EXCEPT !.recordedData = "undefined"]
        ELSE s1

\* dispose()
Dispose(st) ==
    LET s1 == Log(st, Effect("dispose", "undefined", 0, "", "undefined"))
    IN  IF s1.recordedData # "undefined" THEN RevokeRecordedData(s1) ELSE s1

\* this.trigger(event): the listeners run; a listener reads recordedData.
Trigger(st, event) ==
    Log([st EXCEPT !.completed = @ \cup {st.recordedData}],
        Effect("trigger", st.recordedData, 0, event, "undefined"))

\* A variant that notifies the listeners before the clean-up.
OnStopRecordingNotifyFirst(st, data, t) ==
    LET s1 == Log([st EXCEPT !.recordedData = data],
                  Effect("recordedData", data, 0, "", "undefined"))
        info == AddFileInfo(s1.heap, s1.recordedData, t)
        s2 == Log([s1 EXCEPT !.heap = info.heap],
                  Effect("addFileInfo", s1.recordedData, 0, "", "undefined"))
    IN  IF info.thrown # "none" THEN [s2 EXCEPT !.thrown = info.thrown]
        ELSE Dispose(Trigger(s2, "recordComplete"))

\* A variant that cleans up and notifies even when addFileInfo throws.
OnStopRecordingFinally(st, data, t) ==
    LET s1 == Log([st EXCEPT !.recordedData = data],
                  Effect("recordedData", data, 0, "", "undefined"))
        info == AddFileInfo(s1.heap, s1.recordedData, t)
        s2 == Log([s1 EXCEPT !.heap = info.heap],
                  Effect("addFileInfo", s1.recordedData, 0, "", "undefined"))
    IN  [Trigger(Dispose(s2), "recordComplete") EXCEPT !.thrown = info.thrown]

\* onStopRecording(data) when the clock reads t.
OnStopRecording(st, data, t) ==
    LET s1 == Log([st EXCEPT !.recordedData = data],
                  Effect("recordedData", data, 0, "", "undefined"))
        info == AddFileInfo(s1.heap, s1.recordedData, t)
        s2 == Log([s1 EXCEPT !.heap = info.heap],
                  Effect("addFileInfo", s1.recordedData, 0, "", "undefined"))
    IN  IF info.thrown # "none" THEN [s2 EXCEPT !.thrown = info.thrown]
        ELSE Trigger(Dispose(s2), "recordComplete")

\* The name maps saveAs is called with: the entries in key order.
NameMaps ==
    {<<[key |-> "video", value |-> "clip"]>>,
     <<[key |-> "audio", value |-> "take"], [key |-> "video", value |-> "clip"]>>}

\* name[Object.keys(name)[0]]
FileName(name) == name[1].value

\* URL.createObjectURL(data) throws a TypeError unless data is a Blob.
CanCreateObjectURL(st, data) ==
    data \in ObjIds /\ st.heap[data].kind \in {"Blob", "File"}

\* The anchor path of saveAs up to the click: create the anchor, point it at
\* a fresh object URL, append it to the document and click it.
AnchorClicked(st, nav, fileName, data) ==
    LET s1 == Log(st, Effect("createElement", "undefined", 0, "a", "undefined"))
        url == s1.urlCount + 1
        s2 == Log([s1 EXCEPT !.urlCount = url, !.objectURLs = @ \cup {url}],
                  Effect("createObjectURL", data, url, "", "undefined"))
        hyperlink == [href |-> url, download |-> fileName,
                      target |-> IF nav.click THEN "" ELSE "_blank"]
        s3 == Log([s2 EXCEPT !.document = Append(@, hyperlink)],
                  Effect("appendChild", data, hyperlink.href, hyperlink.download,
                         "undefined"))
    IN  IF ~CanCreateObjectURL(s1, data)
        THEN [Log(s1, Effect("createObjectURL", data, 0, "", "TypeError"))
                EXCEPT !.thrown = "TypeError"]
        ELSE Log(s3, Effect(IF nav.click THEN "click" ELSE "dispatchEvent",
                            data, hyperlink.href, hyperlink.target, "undefined"))

\* A variant that leaves the object URL alive.
SaveAsAnchorNoRevoke(st, nav, fileName, data) == AnchorClicked(st, nav, fileName, data)

\* The anchor path of saveAs, after the legacy branches; it ends with
\* URL.revokeObjectURL(hyperlink.href).
SaveAsAnchor(st, nav, fileName, data) ==
    LET s4 == AnchorClicked(st, nav, fileName, data)
        href == s4.document[Len(s4.document)].href
    IN  IF s4.thrown # "none" THEN s4
        ELSE Log([s4 EXCEPT !.objectURLs = @ \ {href}],
                 Effect("revokeObjectURL", "undefined", href, "", "undefined"))

\* A variant that tests msSaveBlob first.
SaveAsPreferSaveBlob(st, nav, name, dataArg, res) ==
    LET data == IF dataArg = "undefined" THEN st.recordedData ELSE dataArg
        fileName == FileName(name)
    IN  IF nav.msSaveBlob
        THEN [Log(st, Effect("msSaveBlob", data, 0, fileName, res))
                EXCEPT !.returned = res]
        ELSE IF nav.msSaveOrOpenBlob
        THEN [Log(st, Effect("msSaveOrOpenBlob", data, 0, fileName, res))
                EXCEPT !.returned = res]
        ELSE SaveAsAnchor(st, nav, fileName, data)

\* saveAs(name, data) on platform nav; res is what a legacy save API returns.
SaveAs(st, nav, name, dataArg, res) ==
    LET data == IF dataArg = "undefined" THEN st.recordedData ELSE dataArg
        fileName == FileName(name)
    IN  IF nav.msSaveOrOpenBlob
        THEN [Log(st, Effect("msSaveOrOpenBlob", data, 0, fileName, res))
                EXCEPT !.returned = res]
        ELSE IF nav.msSaveBlob
        THEN [Log(st, Effect("msSaveBlob", data, 0, fileName, res))
                EXCEPT !.returned = res]
        ELSE SaveAsAnchor(st, nav, fileName, data)

----------------------------------------------------------------------------
(* The actions: one per public operation, and the clock.                   *)

Install(st) ==
    /\ recordedData' = st.recordedData
    /\ heap' = st.heap
    /\ revokedData' = st.revokedData
    /\ completed' = st.completed
    /\ objectURLs' = st.objectURLs
    /\ urlCount' = st.urlCount
    /\ document' = st.document
    /\ trace' = st.trace
    /\ thrown' = st.thrown
    /\ returned' = st.returned

Call(op, data, name) == [op |-> op, data |-> data, name |-> name]

CallDispose ==
    /\ call' = Call("dispose", "undefined", << >>)
    /\ Install(Dispose(Cur))
    /\ UNCHANGED <<now, navigator>>

CallAddFileInfo(fileObj) ==
    /\ call' = Call("addFileInfo", fileObj, << >>)
    /\ LET info == AddFileInfo(heap, fileObj, now)
       IN  Install([Cur EXCEPT !.heap = info.heap, !.thrown = info.thrown])
    /\ UNCHANGED <<now, navigator>>

CallOnStopRecording(data) ==
    /\ call' = Call("onStopRecording", data, << >>)
    /\ Install(OnStopRecording(Cur, data, now))
    /\ UNCHANGED <<now, navigator>>

CallSaveAs(name, data, res) ==
    /\ Len(document) < MaxAnchors
    /\ call' = Call("saveAs", data, name)
    /\ Install(SaveAs(Cur, navigator, name, data, res))
    /\ UNCHANGED <<now, navigator>>

Tick ==
    /\ now < MaxTime
    /\ now' = now + 1
    /\ UNCHANGED <<recordedData, heap, navigator, revokedData, completed,
                   objectURLs, urlCount, document, call, trace, thrown, returned>>

\* The platforms: a legacy save API, or the anchor path with or without
\* HTMLElement.click.
Navigators ==
    {[msSaveOrOpenBlob |-> TRUE, msSaveBlob |-> TRUE, click |-> TRUE],
     [msSaveOrOpenBlob |-> TRUE, msSaveBlob |-> FALSE, click |-> TRUE],
     [msSaveOrOpenBlob |-> FALSE, msSaveBlob |-> TRUE, click |-> TRUE],
     [msSaveOrOpenBlob |-> FALSE, msSaveBlob |-> FALSE, click |-> TRUE],
     [msSaveOrOpenBlob |-> FALSE, msSaveBlob |-> FALSE, click |-> FALSE]}

\* The objects of the engine specification.  blob1 is a writable Blob or a
\* Blob whose lastModifiedDate setter raises an error; blob2 is a File whose
\* fields are getter-only or a plain object.
EngineHeaps ==
    {[o \in ObjIds |-> IF o = "blob1" THEN b1 ELSE b2] :
        b1 \in {NewObject("Blob", AudioOgg, "rw", "rw", "rw"),
                NewObject("Blob", VideoWebm, "rw", "throws", "rw")},
        b2 \in {NewObject("File", VideoWebmCodecs, "ro", "ro", "ro"),
                PlainObject}}

InitEngine ==
    /\ recordedData = "undefined"
    /\ revokedData = {}
    /\ completed = {}
    /\ objectURLs = {}
    /\ urlCount = 0
    /\ document = << >>
    /\ call = Call("constructor", "undefined", << >>)
    /\ trace = << >>
    /\ thrown = "none"
    /\ returned = "undefined"

Init ==
    /\ InitEngine
    /\ heap \in EngineHeaps
    /\ now = 1
    /\ navigator \in Navigators

\* The engine's life: addFileInfo runs here inside onStopRecording; its
\* direct calls, on every kind of input, are the steps of SpecFileInfo.
Next ==
    \/ CallDispose
    \/ \E data \in Refs : CallOnStopRecording(data)
    \/ \E name \in NameMaps, data \in Refs, res \in {"true", "false"} :
            CallSaveAs(name, data, res)
    \/ Tick

Spec == Init /\ [][Next]_vars

\* The specification of addFileInfo alone: one object of every kind, MIME
\* type and combination of field behaviours, at several clock values.
Times == {1, 7, 10, 1451}

InitFileInfo ==
    /\ InitEngine
    /\ \E kind \in Kinds, type \in MimeTypes, m1 \in Modes, m2 \in Modes, m3 \in Modes :
            heap = [o \in ObjIds |-> IF o = "blob1"
                                     THEN NewObject(kind, type, m1, m2, m3)
                                     ELSE PlainObject]
    /\ now \in Times
    /\ navigator \in {[msSaveOrOpenBlob |-> FALSE, msSaveBlob |-> FALSE,
                       click |-> TRUE]}

NextFileInfo == \E fileObj \in Refs : CallAddFileInfo(fileObj)

SpecFileInfo == InitFileInfo /\ [][NextFileInfo]_vars

----------------------------------------------------------------------------
(* Properties of the engine (specification Spec).                          *)

\* The positions of the effects named op in the last call.
At(op) == {i \in DOMAIN trace : trace[i].op = op}

\* The data a saveAs call works on: the argument, or recordedData when the
\* argument is omitted.
SaveData == IF call.data = "undefined" THEN recordedData ELSE call.data

LegacySave == navigator.msSaveOrOpenBlob \/ navigator.msSaveBlob

\* C1: a call onStopRecording(blob) that returns normally has stored blob in
\* recordedData, then invoked addFileInfo on it, then dispose(), then triggered
\* recordComplete, in this order and each exactly once; the listener of the one
\* recordComplete sees recordedData = blob.
C1_StopEffectsInOrder ==
    (call.op = "onStopRecording" /\ thrown = "none") =>
        /\ recordedData = call.data
        /\ \E s \in At("recordedData"), a \in At("addFileInfo"),
              d \in At("dispose"), e \in At("trigger") :
                /\ At("recordedData") = {s} /\ At("addFileInfo") = {a}
                /\ At("dispose") = {d} /\ At("trigger") = {e}
                /\ s < a /\ a < d /\ d < e /\ e = Len(trace)
                /\ trace[s].ref = call.data
                /\ trace[a].ref = call.data
                /\ trace[e].text = "recordComplete"
                /\ trace[e].ref = call.data
                /\ \A r \in At("revokeObjectURL") : d < r /\ r < e

C1_Witness ==
    /\ call.op = "onStopRecording" /\ thrown = "none"
    /\ recordedData = "blob1"
    /\ heap["blob1"].name # << >>
    /\ Len(trace) = 5

\* C2: every blob the engine held has been passed to URL.revokeObjectURL by
\* the time recordedData is overwritten with another value.
C2_RevokedBeforeReplaced ==
    [][(recordedData' # recordedData /\ recordedData \in ObjIds)
            => recordedData \in revokedData']_vars

\* C3: without a legacy save API, a saveAs call that returns normally has
\* created exactly one anchor, whose download is the first value of the name
\* map and whose href is the object URL created for the data in this call, and
\* has revoked this URL afterwards; no object URL of saveAs stays outstanding.
C3_AnchorAndUrlRevoked ==
    ~LegacySave =>
        /\ objectURLs = {}
        /\ (call.op = "saveAs" /\ thrown = "none") =>
            \E c \in At("createElement"), u \in At("createObjectURL"),
               a \in At("appendChild"), r \in At("revokeObjectURL") :
                /\ At("createElement") = {c} /\ At("createObjectURL") = {u}
                /\ At("appendChild") = {a} /\ At("revokeObjectURL") = {r}
                /\ c < u /\ u < a /\ a < r /\ r = Len(trace)
                /\ trace[u].ref = SaveData
                /\ trace[u].url > 0
                /\ trace[r].url = trace[u].url
                /\ document # << >>
                /\ document[Len(document)].download = call.name[1].value
                /\ document[Len(document)].href = trace[u].url
                /\ \A i \in 1..(Len(document) - 1) :
                        document[i].href # trace[u].url

C3_Witness ==
    /\ ~LegacySave
    /\ call.op = "saveAs" /\ thrown = "none"
    /\ Len(call.name) = 2
    /\ Len(document) = 2
    /\ document[2].download = "take"
    /\ urlCount = 2

C8_DisposeKeepsRecordedData ==
    /\ [](call.op = "dispose" =>
            /\ thrown = "none"
            /\ (At("revokeObjectURL") # {}) <=> (recordedData # "undefined")
            /\ \A r \in At("revokeObjectURL") : trace[r].ref = recordedData)
    /\ [][recordedData' # recordedData =>
            (call'.op = "onStopRecording" /\ recordedData' = call'.data)]_vars
    /\ []((call.op = "saveAs" /\ call.data = "undefined") =>
            /\ \E i \in DOMAIN trace :
                    /\ trace[i].op \in {"msSaveOrOpenBlob", "msSaveBlob",
                                        "createObjectURL"}
                    /\ trace[i].ref = recordedData
            /\ (recordedData \in ObjIds
                    /\ heap[recordedData].kind \in {"Blob", "File"})
                 => thrown = "none")

\* onStopRecording(blob1) threw before its dispose(), so blob1 was revoked by
\* a later call of dispose(); saveAs then works on blob1.
C8_Witness ==
    /\ heap["blob1"].mode.lastModifiedDate = "throws"
    /\ recordedData = "blob1"
    /\ "blob1" \in revokedData
    /\ call.op = "saveAs" /\ call.data = "undefined"
    /\ thrown = "none"
    /\ \E i \in DOMAIN trace : trace[i].ref = "blob1"

\* C10: when onStopRecording(blob) ends with an error, the error is the one
\* addFileInfo raised (not a TypeError), recordedData is blob already, and
\* neither dispose() nor the recordComplete event has happened in the call.
C10_ThrowKeepsStore ==
    (call.op = "onStopRecording" /\ thrown # "none") =>
        /\ thrown = "Error"
        /\ recordedData = call.data
        /\ At("trigger") = {} /\ At("dispose") = {} /\ At("revokeObjectURL") = {}
        /\ At("recordedData") = {1} /\ At("addFileInfo") = {2}
        /\ heap[call.data].mode.lastModified = "throws"
            \/ (heap[call.data].mode.lastModified = "rw"
                    /\ heap[call.data].mode.lastModifiedDate = "throws")
            \/ heap[call.data].mode.name = "throws"

----------------------------------------------------------------------------
(* Properties of addFileInfo (specification SpecFileInfo, where the clock  *)
(* stands still: now is the time every call read).                         *)

\* The first position of ch in s at or after from, Len(s) + 1 when there is none.
FirstPos(s, ch, from) ==
    IF \E i \in from..Len(s) : s[i] = ch
    THEN CHOOSE i \in from..Len(s) : s[i] = ch /\ \A j \in from..(i - 1) : s[j] # ch
    ELSE Len(s) + 1

HasSlash(type) == FirstPos(type, "/", 1) <= Len(type)

\* The subtype of a MIME type: what stands between the first '/' and the
\* first ';' after it (or the end).
Subtype(type) ==
    SubSeq(type, FirstPos(type, "/", 1) + 1,
           FirstPos(type, ";", FirstPos(type, "/", 1) + 1) - 1)

\* "<kind>/<subtype>" with an optional ";<parameters>": a non-empty kind
\* without ';' and a non-empty subtype without '/'.
WellFormed(type) ==
    /\ HasSlash(type)
    /\ FirstPos(type, "/", 1) > 1
    /\ FirstPos(type, ";", 1) > FirstPos(type, "/", 1)
    /\ Subtype(type) # << >>
    /\ \A i \in DOMAIN Subtype(type) : Subtype(type)[i] # "/"

\* The last call was addFileInfo on a Blob or a File.
InfoOnBlob ==
    /\ call.op = "addFileInfo"
    /\ call.data \in ObjIds
    /\ heap[call.data].kind \in {"Blob", "File"}

Fields == {"lastModified", "lastModifiedDate", "name"}

\* Field f of object o holds what addFileInfo assigns at time t with
\* extension ext.
Stamped(o, f, t) ==
    IF f = "name" THEN o.name # << >> /\ SubSeq(o.name, 1, Len(NumToStr(t))) = NumToStr(t)
    ELSE o[f] = t

\* C5: on a Blob or File with writable fields and a well-formed MIME type,
\* addFileInfo sets name to "<t>.<subtype>", parameters stripped, where t is
\* the value it stores in lastModified ("audio/ogg" gives "<t>.ogg",
\* "video/webm;codecs=vp9,opus" gives "<t>.webm").
C5_NameFromMimeType ==
    (/\ InfoOnBlob
     /\ \A f \in Fields : heap[call.data].mode[f] = "rw"
     /\ WellFormed(heap[call.data].type)) =>
        LET o == heap[call.data]
        IN  /\ o.lastModified = now
            /\ o.name = NumToStr(o.lastModified) \o <<".">> \o Subtype(o.type)
            /\ o.type = AudioOgg => o.name = NumToStr(now) \o <<".", "o", "g", "g">>
            /\ o.type = VideoWebmCodecs =>
                    o.name = NumToStr(now) \o <<".", "w", "e", "b", "m">>

C5_Witness ==
    /\ InfoOnBlob
    /\ heap["blob1"].type = VideoWebmCodecs
    /\ heap["blob1"].lastModified = 1451
    /\ heap["blob1"].name = <<"1", "4", "5", "1", ".", "w", "e", "b", "m">>

\* C6 as stated: the three assignments are independent, so after a call on a
\* Blob or File none of whose setters raises a non-TypeError, the call has
\* returned normally and every writable field is assigned.
C6_AssignmentsIndependent ==
    (InfoOnBlob /\ \A f \in Fields : heap[call.data].mode[f] # "throws") =>
        /\ thrown = "none"
        /\ \A f \in Fields :
                heap[call.data].mode[f] = "rw" => Stamped(heap[call.data], f, now)

\* C6 amended: the two try blocks are independent, the two assignments of the
\* first block are not.  A TypeError is always swallowed; a TypeError on
\* lastModified also skips the assignment of lastModifiedDate; name is
\* assigned whenever it is writable and the first block raised no other
\* error; an error that is not a TypeError is re-raised as it is, by the
\* first assignment that is reached and raises one.
C6_TryBlocksIndependent ==
    InfoOnBlob =>
        LET o == heap[call.data]
            m == o.mode
            firstBlockError ==
                \/ m.lastModified = "throws"
                \/ m.lastModified = "rw" /\ m.lastModifiedDate = "throws"
        IN  /\ thrown \in {"none", "Error"}
            /\ thrown = "Error" <=> (firstBlockError \/ m.name = "throws")
            /\ Stamped(o, "lastModified", now) <=> m.lastModified = "rw"
            /\ Stamped(o, "lastModifiedDate", now) <=>
                    (m.lastModified = "rw" /\ m.lastModifiedDate = "rw")
            /\ Stamped(o, "name", now) <=> (m.name = "rw" /\ ~firstBlockError)

\* lastModified is getter-only: lastModifiedDate, though writable, is skipped
\* and name is still assigned.
C6_Witness ==
    /\ InfoOnBlob
    /\ thrown = "none"
    /\ heap[call.data].mode.lastModified = "ro"
    /\ heap[call.data].mode.lastModifiedDate = "rw"
    /\ heap[call.data].mode.name = "rw"
    /\ heap[call.data].lastModifiedDate = 0
    /\ heap[call.data].name # << >>

\* The MIME type has a '/' that nothing or a ';' follows.
EmptySubtypeOf(type) == HasSlash(type) /\ Subtype(type) = << >>

\* C7 as stated: a MIME type without '/' or with an empty subtype gives the
\* name "<timestamp>." with nothing after the dot.
C7_DegenerateExtensionIsDot ==
    (/\ InfoOnBlob
     /\ thrown = "none"
     /\ heap[call.data].mode.name = "rw"
     /\ ~HasSlash(heap[call.data].type) \/ EmptySubtypeOf(heap[call.data].type)) =>
        heap[call.data].name = NumToStr(now) \o <<".">>

\* C7 amended: an empty subtype gives the name "<timestamp>."; a MIME type
\* without '/' (the empty string included) gives "<timestamp>.undefined".
C7_DegenerateExtensions ==
    (InfoOnBlob /\ thrown = "none" /\ heap[call.data].mode.name = "rw") =>
        /\ EmptySubtypeOf(heap[call.data].type) =>
                heap[call.data].name = NumToStr(now) \o <<".">>
        /\ ~HasSlash(heap[call.data].type) =>
                heap[call.data].name = NumToStr(now) \o <<".">> \o UndefinedText

C7_Witness ==
    /\ InfoOnBlob
    /\ heap["blob1"].type = NoSlash
    /\ heap["blob1"].name =
            <<"1", "0", ".", "u", "n", "d", "e", "f", "i", "n", "e", "d">>

\* C9: addFileInfo on a value that is neither a Blob nor a File (undefined,
\* null, a plain object) changes no field of any object and raises no error.
C9_NonBlobUntouched ==
    [][(/\ call'.op = "addFileInfo"
        /\ ~(call'.data \in ObjIds /\ heap[call'.data].kind \in {"Blob", "File"}))
            => (heap' = heap /\ thrown' = "none")]_vars

\* The last call was on a plain object with writable fields; it has no name.
C9_Witness ==
    /\ call.op = "addFileInfo"
    /\ call.data = "blob1"
    /\ heap["blob1"].kind = "Object"
    /\ \A f \in Fields : heap["blob1"].mode[f] = "rw"
    /\ heap["blob1"].name = << >>
    /\ heap["blob1"].lastModified = 0
    /\ thrown = "none"

\* The engine holds blob1, for which no recordComplete was ever triggered.
C10_Witness ==
    /\ call.op = "onStopRecording" /\ thrown = "Error"
    /\ recordedData = "blob1"
    /\ "blob1" \notin completed
    /\ "blob1" \notin revokedData
    /\ heap["blob1"].lastModified = now

====
